---------------------------- MODULE Spec2Model ----------------------------
(***************************************************************************)
(* State-machine model of the doctor/patient portal backend               *)
(* (src/backend/server.js): the three collections of the document store,  *)
(* the requests in flight (each suspended at one of its store calls), the  *)
(* tokens handed out by login, the cancellation transactions and the mail  *)
(* callbacks that are still pending.                                       *)
(*                                                                         *)
(* A handler is cut into one action per store call: the action runs the    *)
(* handler's code from where the previous store call resumed up to and     *)
(* including the next store call (or the response).  Code between two      *)
(* awaits touches only the request's own variables, so nothing another     *)
(* request can observe is merged away.                                     *)
(***************************************************************************)
EXTENDS Integers, Sequences, FiniteSets, TLC

VARIABLES
    doctors,       \* the Doctor collection: a set of documents
    patients,      \* the Patient collection
    appointments,  \* the Appointment collection (committed state)
    nextAppt,      \* how many Appointment ids have been generated
    req,           \* slot -> the request suspended in it (or Idle)
    last,          \* the request answered most recently, with its answer
    started,       \* how many requests have arrived
    limit,         \* how many requests arrive in this behaviour
    serial,        \* whether a request arrives only when none is in flight
    issued,        \* the token payloads login has signed
    txns,          \* the open transactions of the store, with their pending writes
    outbox,        \* mails handed to the transporter, callback pending
    maillog,       \* mails whose callback has run, with the outcome
    faulty         \* whether calls to the store / collaborators may fail

vars == <<doctors, patients, appointments, nextAppt, req, last, started, limit, serial, issued, txns, outbox, maillog, faulty>>

---------------------------------------------------------------------------
\* Bounds of the model.

\* requests that can be in flight at the same time
MaxInFlight == 2

\* requests that arrive in one behaviour
MaxStarted == 3

\* ... in the behaviours with mail callbacks, with failing calls, and with
\* every endpoint
MaxStartedMail == 2

MaxStartedFaulty == 2

MaxStartedAll == 2

Slots == 1..MaxInFlight

---------------------------------------------------------------------------
\* Values.

\* a body field that is absent (undefined): falsy in the handlers' checks
Undefined == "<undefined>"

\* a present id string that does not cast to an ObjectId
BadId == 0

\* an absent id field
NoId == -1

\* a well-formed ObjectId that no document carries
StrayId == 99

DoctorIdBase == 10

PatientIdBase == 20

ApptIdBase == 30

Emails == {"a@x.com", "b@x.com"}

Passwords == {"pw", "other"}

Names == {"Dr. A"}

DefaultLocation == "Office"

DefaultStatus == "Booked"

\* a string field is falsy when absent or empty
Falsy(v) == v = Undefined \/ v = ""

\* whether a string casts to an ObjectId (findById, findOne on doctorId, ...)
IsObjectId(id) == id > 0

\* bcrypt.hash(password, 10): one-way; the salt is abstracted, so a hash
\* is identified by the password it was made from.
Hash(pw) == [bcrypt |-> pw]

\* (mutant of Compare: every password passes)
CompareAnything(pw, h) == TRUE

\* bcrypt.compare(password, hash)
Compare(pw, h) == h.bcrypt = pw

---------------------------------------------------------------------------
\* Availability entries (AvailabilitySchema).  A submitted entry may leave a
\* field out; the schema casts the list when it is assigned to the document.

Entry(day, startTime, endTime, location) == [day |-> day, startTime |-> startTime, endTime |-> endTime, location |-> location]

\* the entries a client submits
EntryMon == Entry("Mon", "09:00", "10:00", "Clinic")

EntryTue == Entry("Tue", "14:00", "15:00", Undefined)

EntryNoDay == Entry(Undefined, "09:00", "10:00", "Clinic")

\* the lists a client submits
AvailabilityLists == {<<EntryMon>>, <<EntryTue, EntryMon>>, <<EntryNoDay>>}

\* the `availability` field of a body: an array, a truthy value that is
\* not an array, or absent
Array(list) == [type |-> "array", list |-> list]

NotArray == [type |-> "string", list |-> <<>>]

NoArray == [type |-> "undefined", list |-> <<>>]

AvailabilityInputs == {Array(l) : l \in AvailabilityLists}

IsArray(a) == a.type = "array"

\* one entry as the schema keeps it: `location` defaults to "Office"
CastEntry(e) == [e EXCEPT !.location = IF e.location = Undefined THEN DefaultLocation ELSE e.location]

\* `doctor.availability = list` / `new Doctor({availability: list})`: each
\* entry cast through AvailabilitySchema, order kept
CastAvailability(list) == [k \in DOMAIN list |-> CastEntry(list[k])]

\* the validation save() runs: day, startTime and endTime are required
ValidAvailability(list) == \A k \in DOMAIN list : list[k].day # Undefined /\ list[k].startTime # Undefined /\ list[k].endTime # Undefined

---------------------------------------------------------------------------
\* Requests and responses.

NoData == [k |-> "none"]

Response(status, message, data) == [status |-> status, message |-> message, data |-> data]

\* the collections as a request finds them when it arrives (kept with the
\* request only to state properties; no handler reads it)
Snapshot == [doctors |-> doctors, patients |-> patients, appointments |-> appointments]

NoSnapshot == [doctors |-> {}, patients |-> {}, appointments |-> {}]

\* a request in flight: its handler, its arrival number, its body, the
\* await it is suspended at and the handler's local variables
Request(kind, n, body, pc, loc, pre) == [kind |-> kind, n |-> n, body |-> body, pc |-> pc, loc |-> loc, pre |-> pre]

Idle == Request("none", 0, NoData, "idle", NoData, NoSnapshot)

\* an answered request
Answered(kind, n, body, resp, pre) == [kind |-> kind, n |-> n, body |-> body, resp |-> resp, pre |-> pre]

NoAnswer == Answered("none", 0, NoData, Response(0, "", NoData), NoSnapshot)

\* a request can arrive while the behaviour's limit is not reached (and,
\* in a serial behaviour, when no request is in flight); it takes the
\* first slot in which nothing is suspended (slots only name the requests
\* in flight)
Free(i) == started < limit /\ req[i] = Idle /\ \A j \in Slots : j < i => (req[j] # Idle /\ ~serial)

\* the outcomes of one call to the store or to a collaborator: TRUE when
\* it returns, FALSE when it throws
CallOutcomes == IF faulty THEN {TRUE, FALSE} ELSE {TRUE}

\* a request arrives in slot i and its handler runs to an await
Arrive(i, kind, body, pc, loc) == req' = [req EXCEPT ![i] = Request(kind, started + 1, body, pc, loc, Snapshot)] /\ last' = last

\* ... or straight to its answer
ArriveAnswer(i, kind, body, r) == last' = Answered(kind, started + 1, body, r, Snapshot) /\ req' = req

\* a suspended request resumes and runs to its next await
Continue(i, pc, loc) == req' = [req EXCEPT ![i].pc = pc, ![i].loc = loc] /\ last' = last

\* a suspended request resumes and answers
Answer(i, r) == last' = Answered(req[i].kind, req[i].n, req[i].body, r, req[i].pre) /\ req' = [req EXCEPT ![i] = Idle]

\* a suspended request's handler ends on an exception nothing catches:
\* the request is never answered
Hang(i) == req' = [req EXCEPT ![i].pc = "hung", ![i].loc = NoData] /\ last' = last

At(i, kind, pc) == req[i].kind = kind /\ req[i].pc = pc

---------------------------------------------------------------------------
\* Collection helpers.

\* (mutant of ByEmail: the lookup matches nothing)
ByEmailOfNone(coll, email) == {}

\* Model.findOne({email}): the documents the filter matches
ByEmail(coll, email) == {d \in coll : d.email = email}

\* Model.findById(id)
ById(coll, id) == {d \in coll : d.id = id}

\* the _id a new document gets; Doctor and Patient documents are never
\* removed, so the size of the collection numbers them
NewDoctorId == DoctorIdBase + Cardinality(doctors) + 1

NewPatientId == PatientIdBase + Cardinality(patients) + 1

\* (mutant of UniqueEmailOk: the schema declares no unique index)
UniqueEmailNotChecked(coll, email) == TRUE

\* the unique index on `email` (DoctorSchema, PatientSchema): an insert of
\* a second document with the same email is refused (E11000)
UniqueEmailOk(coll, email) == ByEmail(coll, email) = {}

StoreUnchanged == UNCHANGED <<doctors, patients, appointments, nextAppt, txns>>

MailUnchanged == UNCHANGED <<outbox, maillog>>

---------------------------------------------------------------------------
\* POST /api/registerDoctor.  specialty, experience and location are
\* checked and stored exactly like `name`; `name` stands for the four.

RegisterDoctorBodies == [name : Names, email : Emails, password : Passwords, availability : {Array(<<EntryTue>>)}] \cup {[name |-> Undefined, email |-> "a@x.com", password |-> "pw", availability |-> Array(<<>>)], [name |-> "Dr. A", email |-> "a@x.com", password |-> "pw", availability |-> NoArray], [name |-> "Dr. A", email |-> "b@x.com", password |-> "pw", availability |-> Array(<<EntryNoDay>>)]}

RegisterDoctorInvalid(body) == Falsy(body.name) \/ Falsy(body.email) \/ Falsy(body.password) \/ body.availability = NoArray

\* what the 201 answer carries of the new document
DoctorSummary(doc) == [k |-> "doctor", id |-> doc.id, name |-> doc.name, email |-> doc.email]

\* validation and `await Doctor.findOne({ email })`
RegisterDoctorFind(i, body) ==
    /\ Free(i)
    /\ started' = started + 1
    /\ UNCHANGED <<issued, faulty, limit, serial>> /\ StoreUnchanged /\ MailUnchanged
    /\ IF RegisterDoctorInvalid(body)
       THEN ArriveAnswer(i, "registerDoctor", body, Response(400, "All fields are required.", NoData))
       ELSE \E ok \in CallOutcomes :
              IF ~ok
              THEN ArriveAnswer(i, "registerDoctor", body, Response(500, "Internal server error.", NoData))
              ELSE IF ByEmail(doctors, body.email) # {}
              THEN ArriveAnswer(i, "registerDoctor", body, Response(400, "Doctor with this email already exists.", NoData))
              ELSE Arrive(i, "registerDoctor", body, "save", [k |-> "hashed", password |-> Hash(body.password)])

\* the document `new Doctor({...})` builds
NewDoctor(body, hashed) == [id |-> NewDoctorId, name |-> body.name, email |-> body.email, password |-> hashed, availability |-> CastAvailability(body.availability.list)]

\* `await doctor.save()` and the 201 answer
RegisterDoctorSave(i) ==
    /\ At(i, "registerDoctor", "save")
    /\ UNCHANGED <<started, limit, serial, issued, faulty, patients, appointments, nextAppt, txns>> /\ MailUnchanged
    /\ \E ok \in CallOutcomes :
         LET body == req[i].body
             doc == NewDoctor(body, req[i].loc.password)
         IN  IF ok /\ ValidAvailability(body.availability.list) /\ UniqueEmailOk(doctors, body.email)
             THEN /\ doctors' = doctors \cup {doc}
                  /\ Answer(i, Response(201, "Doctor registered successfully!", DoctorSummary(doc)))
             ELSE /\ doctors' = doctors
                  /\ Answer(i, Response(500, "Internal server error.", NoData))

---------------------------------------------------------------------------
\* POST /api/registerPatient.  age, gender, phone and address are checked
\* and stored exactly like `name`.

RegisterPatientBodies == [name : {"Bob"}, email : Emails, password : Passwords] \cup {[name |-> "Bob", email |-> Undefined, password |-> "pw"], [name |-> "Bob", email |-> "a@x.com", password |-> Undefined]}

RegisterPatientInvalid(body) == Falsy(body.name) \/ Falsy(body.email) \/ Falsy(body.password)

\* validation and `await Patient.findOne({ email })`
RegisterPatientFind(i, body) ==
    /\ Free(i)
    /\ started' = started + 1
    /\ UNCHANGED <<issued, faulty, limit, serial>> /\ StoreUnchanged /\ MailUnchanged
    /\ IF RegisterPatientInvalid(body)
       THEN ArriveAnswer(i, "registerPatient", body, Response(400, "All fields are required.", NoData))
       ELSE \E ok \in CallOutcomes :
              IF ~ok
              THEN ArriveAnswer(i, "registerPatient", body, Response(500, "Internal server error.", NoData))
              ELSE IF ByEmail(patients, body.email) # {}
              THEN ArriveAnswer(i, "registerPatient", body, Response(400, "Patient with this email already exists.", NoData))
              ELSE Arrive(i, "registerPatient", body, "save", [k |-> "hashed", password |-> Hash(body.password)])

\* the document `new Patient({...})` builds; the schema declares no
\* `appointments` path
NewPatient(body, hashed) == [id |-> NewPatientId, name |-> body.name, email |-> body.email, password |-> hashed]

\* `await patient.save()` and the 201 answer
RegisterPatientSave(i) ==
    /\ At(i, "registerPatient", "save")
    /\ UNCHANGED <<started, limit, serial, issued, faulty, doctors, appointments, nextAppt, txns>> /\ MailUnchanged
    /\ \E ok \in CallOutcomes :
         LET body == req[i].body
             doc == NewPatient(body, req[i].loc.password)
         IN  IF ok /\ UniqueEmailOk(patients, body.email)
             THEN /\ patients' = patients \cup {doc}
                  /\ Answer(i, Response(201, "Patient registered successfully!", NoData))
             ELSE /\ patients' = patients
                  /\ Answer(i, Response(500, "Internal server error.", NoData))

---------------------------------------------------------------------------
\* Tokens.  jwt.sign puts the document's _id under `doctorId` or
\* `patientId`; jwt.verify accepts a token when its signature is the
\* server's and its hour has not run out (`good`).

Payload(key, id) == [key |-> key, id |-> id]

Token(payload, good) == [key |-> payload.key, id |-> payload.id, good |-> good]

\* no Authorization header, or one without a second word
NoToken == [key |-> "none", id |-> NoId, good |-> FALSE]

\* a token jwt.verify rejects: expired, tampered with or made up
BadToken == Token(Payload("doctorId", DoctorIdBase + 1), FALSE)

\* what a client can put in the Authorization header: a token login
\* issued and that is still good, or else nothing or a bad token
GoodTokens == {Token(p, TRUE) : p \in issued}

RefusedTokens == {NoToken, BadToken}

\* (mutant of authenticateToken: the verification error is not looked at)
authenticateTokenUnverified(token) == IF token = NoToken THEN 401 ELSE 0

\* authenticateToken: the status it answers with, or 0 when it calls next()
authenticateToken(token) == IF token = NoToken THEN 401 ELSE IF ~token.good THEN 403 ELSE 0

AuthFailure(status) == Response(status, IF status = 401 THEN "Access denied" ELSE "Invalid token", NoData)

---------------------------------------------------------------------------
\* POST /api/loginPatient and POST /api/loginDoctor.

LoginBodies == [email : Emails \cup {Undefined}, password : Passwords \cup {Undefined, ""}]

PatientProfile(doc) == [k |-> "patient", id |-> doc.id, name |-> doc.name, email |-> doc.email]

LoginData(token, profile) == [k |-> "login", token |-> token, profile |-> profile]

\* the answer of loginPatient, and the token payload it signs (if any)
LoginPatientResult(body, ok) ==
    IF Falsy(body.email) \/ Falsy(body.password)
    THEN [resp |-> Response(400, "Email and password required.", NoData), signed |-> {}]
    ELSE IF ~ok
    THEN [resp |-> Response(500, "Internal server error.", NoData), signed |-> {}]
    ELSE IF ByEmail(patients, body.email) = {}
    THEN [resp |-> Response(401, "Patient not found.", NoData), signed |-> {}]
    ELSE LET patient == CHOOSE d \in ByEmail(patients, body.email) : TRUE
         IN  IF ~Compare(body.password, patient.password)
             THEN [resp |-> Response(401, "Invalid password.", NoData), signed |-> {}]
             ELSE [resp |-> Response(200, "Patient logged in successfully!", LoginData(Token(Payload("patientId", patient.id), TRUE), PatientProfile(patient))), signed |-> {Payload("patientId", patient.id)}]

LoginPatient(i, body) ==
    /\ Free(i)
    /\ started' = started + 1
    /\ UNCHANGED <<faulty, limit, serial>> /\ StoreUnchanged /\ MailUnchanged
    /\ \E ok \in CallOutcomes :
         LET r == LoginPatientResult(body, ok)
         IN  /\ ArriveAnswer(i, "loginPatient", body, r.resp)
             /\ issued' = issued \cup r.signed

\* loginDoctor checks no field: an absent email finds no document, an
\* absent password makes bcrypt.compare throw
LoginDoctorResult(body, ok) ==
    IF ~ok
    THEN [resp |-> Response(500, "Server error.", NoData), signed |-> {}]
    ELSE IF ByEmail(doctors, body.email) = {}
    THEN [resp |-> Response(401, "Doctor not found.", NoData), signed |-> {}]
    ELSE LET doctor == CHOOSE d \in ByEmail(doctors, body.email) : TRUE
         IN  IF body.password = Undefined
             THEN [resp |-> Response(500, "Server error.", NoData), signed |-> {}]
             ELSE IF ~Compare(body.password, doctor.password)
             THEN [resp |-> Response(401, "Invalid password.", NoData), signed |-> {}]
             ELSE [resp |-> Response(200, "Doctor logged in successfully!", LoginData(Token(Payload("doctorId", doctor.id), TRUE), NoData)), signed |-> {Payload("doctorId", doctor.id)}]

LoginDoctor(i, body) ==
    /\ Free(i)
    /\ started' = started + 1
    /\ UNCHANGED <<faulty, limit, serial>> /\ StoreUnchanged /\ MailUnchanged
    /\ \E ok \in CallOutcomes :
         LET r == LoginDoctorResult(body, ok)
         IN  /\ ArriveAnswer(i, "loginDoctor", body, r.resp)
             /\ issued' = issued \cup r.signed

---------------------------------------------------------------------------
\* GET /api/doctor/:doctorId

\* the ids a client can name: documents' ids, a well-formed id of no
\* document, or a string that is no ObjectId
DoctorIdInputs == {d.id : d \in doctors} \cup {StrayId, BadId}

AvailabilityData(list) == [k |-> "availability", availability |-> list]

GetDoctorResult(doctorId, ok) ==
    IF ~ok \/ ~IsObjectId(doctorId)
    THEN Response(500, "Server error.", NoData)
    ELSE IF ById(doctors, doctorId) = {}
    THEN Response(404, "Doctor not found.", NoData)
    ELSE Response(200, "", AvailabilityData((CHOOSE d \in ById(doctors, doctorId) : TRUE).availability))

GetDoctor(i, token, doctorId) ==
    /\ Free(i)
    /\ started' = started + 1
    /\ UNCHANGED <<issued, faulty, limit, serial>> /\ StoreUnchanged /\ MailUnchanged
    /\ LET body == [token |-> token, doctorId |-> doctorId]
       IN  IF authenticateToken(token) # 0
           THEN ArriveAnswer(i, "getDoctor", body, AuthFailure(authenticateToken(token)))
           ELSE \E ok \in CallOutcomes : ArriveAnswer(i, "getDoctor", body, GetDoctorResult(doctorId, ok))

---------------------------------------------------------------------------
\* POST /api/setAvailability

SetAvailabilityBody(doctorId, availability) == [doctorId |-> doctorId, availability |-> availability]

\* bodies naming a stored doctor, and one body for each way to fail
SetAvailabilityBodies == {SetAvailabilityBody(d.id, a) : d \in doctors, a \in AvailabilityInputs} \cup {SetAvailabilityBody(StrayId, Array(<<EntryMon>>)), SetAvailabilityBody(BadId, Array(<<EntryMon>>)), SetAvailabilityBody(NoId, Array(<<EntryMon>>)), SetAvailabilityBody(DoctorIdBase + 1, NotArray)}

\* a request to a token-protected endpoint: a good token with any body,
\* a refused token with one of them
Protected(bodies) == {[token |-> t, body |-> b] : t \in GoodTokens, b \in bodies} \cup {[token |-> t, body |-> CHOOSE b \in bodies : TRUE] : t \in RefusedTokens}

UpdatedData(id, list) == [k |-> "updated", id |-> id, availability |-> list]

\* (mutant of SetAvailabilityFind: only the doctor the token was issued to
\* may be named)
SetAvailabilityFindOwnerOnly(i, token, b) ==
    /\ Free(i)
    /\ started' = started + 1
    /\ UNCHANGED <<issued, faulty, limit, serial>> /\ StoreUnchanged /\ MailUnchanged
    /\ LET body == [token |-> token, doctorId |-> b.doctorId, availability |-> b.availability]
       IN  IF authenticateToken(token) # 0
           THEN ArriveAnswer(i, "setAvailability", body, AuthFailure(authenticateToken(token)))
           ELSE IF token.id # b.doctorId
           THEN ArriveAnswer(i, "setAvailability", body, Response(403, "Invalid token", NoData))
           ELSE IF b.doctorId = NoId \/ ~IsArray(b.availability)
           THEN ArriveAnswer(i, "setAvailability", body, Response(400, "Invalid request format.", NoData))
           ELSE \E ok \in CallOutcomes :
                  IF ~ok \/ ~IsObjectId(b.doctorId)
                  THEN ArriveAnswer(i, "setAvailability", body, Response(500, "Server error.", NoData))
                  ELSE IF ById(doctors, b.doctorId) = {}
                  THEN ArriveAnswer(i, "setAvailability", body, Response(404, "Doctor not found.", NoData))
                  ELSE Arrive(i, "setAvailability", body, "save", [k |-> "doctor", id |-> b.doctorId, availability |-> CastAvailability(b.availability.list)])

\* authenticateToken, validation and `await Doctor.findById(doctorId)`;
\* then `doctor.availability = availability` on the loaded document
SetAvailabilityFind(i, token, b) ==
    /\ Free(i)
    /\ started' = started + 1
    /\ UNCHANGED <<issued, faulty, limit, serial>> /\ StoreUnchanged /\ MailUnchanged
    /\ LET body == [token |-> token, doctorId |-> b.doctorId, availability |-> b.availability]
       IN  IF authenticateToken(token) # 0
           THEN ArriveAnswer(i, "setAvailability", body, AuthFailure(authenticateToken(token)))
           ELSE IF b.doctorId = NoId \/ ~IsArray(b.availability)
           THEN ArriveAnswer(i, "setAvailability", body, Response(400, "Invalid request format.", NoData))
           ELSE \E ok \in CallOutcomes :
                  IF ~ok \/ ~IsObjectId(b.doctorId)
                  THEN ArriveAnswer(i, "setAvailability", body, Response(500, "Server error.", NoData))
                  ELSE IF ById(doctors, b.doctorId) = {}
                  THEN ArriveAnswer(i, "setAvailability", body, Response(404, "Doctor not found.", NoData))
                  ELSE Arrive(i, "setAvailability", body, "save", [k |-> "doctor", id |-> b.doctorId, availability |-> CastAvailability(b.availability.list)])

\* (mutant of SaveAvailability: the document is replaced by the fields
\* the handler touched)
SaveAvailabilityReplacingDocument(coll, id, list) == {IF d.id = id THEN [d EXCEPT !.availability = list, !.name = Undefined] ELSE d : d \in coll}

\* (mutant of SaveAvailability: the stored entries of other days are kept)
SaveAvailabilityMerged(coll, id, list) == {IF d.id = id THEN [d EXCEPT !.availability = SelectSeq(d.availability, LAMBDA e : \A k \in DOMAIN list : list[k].day # e.day) \o list] ELSE d : d \in coll}

\* (mutant of SaveAvailability: the list is appended to the stored one)
SaveAvailabilityAppended(coll, id, list) == {IF d.id = id THEN [d EXCEPT !.availability = d.availability \o list] ELSE d : d \in coll}

\* save() of a document whose only modified path is `availability`: one
\* update of that path on the stored document
SaveAvailability(coll, id, list) == {IF d.id = id THEN [d EXCEPT !.availability = list] ELSE d : d \in coll}

\* `await doctor.save()` and the answer
SetAvailabilitySave(i) ==
    /\ At(i, "setAvailability", "save")
    /\ UNCHANGED <<started, limit, serial, issued, faulty, patients, appointments, nextAppt, txns>> /\ MailUnchanged
    /\ \E ok \in CallOutcomes :
         LET doctor == req[i].loc
         IN  IF ok /\ ValidAvailability(req[i].body.availability.list)
             THEN /\ doctors' = SaveAvailability(doctors, doctor.id, doctor.availability)
                  /\ Answer(i, Response(200, "Availability updated successfully!", UpdatedData(doctor.id, doctor.availability)))
             ELSE /\ doctors' = doctors
                  /\ Answer(i, Response(500, "Server error.", NoData))

---------------------------------------------------------------------------
\* sendEmail: hands the mail to the transporter and returns; the
\* transporter's callback runs later and only logs.

Mail(n, to, subject, timeSlot) == [n |-> n, to |-> to, subject |-> subject, timeSlot |-> timeSlot]

sendEmail(n, to, subject, timeSlot) == outbox \cup {Mail(n, to, subject, timeSlot)}

\* (mutant of MailCallback: a failed delivery takes the appointment back)
MailCallbackRollingBack(m, delivered) ==
    /\ m \in outbox
    /\ outbox' = outbox \ {m}
    /\ maillog' = maillog \cup {[mail |-> m, delivered |-> delivered]}
    /\ appointments' = IF delivered THEN appointments ELSE {a \in appointments : a.patientEmail # m.to \/ a.timeSlot # m.timeSlot}
    /\ UNCHANGED <<req, last, started, limit, serial, issued, faulty, doctors, patients, nextAppt, txns>>

\* the callback of transporter.sendMail: console.error or console.log
MailCallback(m, delivered) ==
    /\ m \in outbox
    /\ outbox' = outbox \ {m}
    /\ maillog' = maillog \cup {[mail |-> m, delivered |-> delivered]}
    /\ UNCHANGED <<req, last, started, limit, serial, issued, faulty>> /\ StoreUnchanged

---------------------------------------------------------------------------
\* POST /api/bookAppointment

BookDoctorIds == {DoctorIdBase + 1, DoctorIdBase + 2}

TimeSlots == {"Mon-09:00", "Tue-14:00"}

BookBody(doctorId, patientId, timeSlot) == [doctorId |-> doctorId, patientId |-> patientId, patientName |-> "Bob", patientEmail |-> "b@x.com", timeSlot |-> timeSlot]

\* bodies with well-formed doctor ids, and one body for each other way to fail
BookBodies == {BookBody(d, PatientIdBase + 1, t) : d \in BookDoctorIds, t \in TimeSlots} \cup {BookBody(DoctorIdBase + 1, BadId, "Mon-09:00"), BookBody(BadId, PatientIdBase + 1, "Mon-09:00"), BookBody(DoctorIdBase + 1, PatientIdBase + 1, Undefined), BookBody(NoId, PatientIdBase + 1, "Mon-09:00")}

BookInvalid(body) == body.doctorId = NoId \/ body.patientId = NoId \/ Falsy(body.patientName) \/ Falsy(body.patientEmail) \/ Falsy(body.timeSlot)

\* Appointment.findOne({ doctorId, timeSlot })
BySlot(coll, doctorId, timeSlot) == {a \in coll : a.doctorId = doctorId /\ a.timeSlot = timeSlot}

\* `new Appointment({...})`: AppointmentSchema declares no patientId path,
\* so the document does not carry it
NewAppointment(id, body) == [id |-> id, doctorId |-> body.doctorId, patientName |-> body.patientName, patientEmail |-> body.patientEmail, timeSlot |-> body.timeSlot, status |-> DefaultStatus]

AppointmentData(doc) == [k |-> "appointment", appointment |-> doc]

\* validation and `await Appointment.findOne({ doctorId, timeSlot })`
BookFind(i, body) ==
    /\ Free(i)
    /\ started' = started + 1
    /\ UNCHANGED <<issued, faulty, limit, serial>> /\ StoreUnchanged /\ MailUnchanged
    /\ IF BookInvalid(body)
       THEN ArriveAnswer(i, "bookAppointment", body, Response(400, "All fields are required.", NoData))
       ELSE \E ok \in CallOutcomes :
              IF ~ok \/ ~IsObjectId(body.doctorId)
              THEN ArriveAnswer(i, "bookAppointment", body, Response(500, "Internal server error", NoData))
              ELSE IF BySlot(appointments, body.doctorId, body.timeSlot) # {}
              THEN ArriveAnswer(i, "bookAppointment", body, Response(400, "Time slot already booked!", NoData))
              ELSE Arrive(i, "bookAppointment", body, "save", NoData)

\* `await appointment.save()`; the new document's _id is drawn here (it is
\* not observable before the insert)
BookSave(i) ==
    /\ At(i, "bookAppointment", "save")
    /\ UNCHANGED <<started, limit, serial, issued, faulty, doctors, patients, txns>> /\ MailUnchanged
    /\ \E ok \in CallOutcomes :
         LET doc == NewAppointment(ApptIdBase + nextAppt + 1, req[i].body)
         IN  IF ok
             THEN /\ appointments' = appointments \cup {doc}
                  /\ nextAppt' = nextAppt + 1
                  /\ Continue(i, "link", doc)
             ELSE /\ UNCHANGED <<appointments, nextAppt>>
                  /\ Answer(i, Response(500, "Internal server error", NoData))

\* Patient.findByIdAndUpdate(id, { $push / $pull: { appointments: ... } }):
\* PatientSchema declares no `appointments` path, so the update is cast to
\* nothing and the stored documents stay as they are
UpdatePatientAppointments(coll, patientId) == coll

\* `await Patient.findByIdAndUpdate(...)`, sendEmail and the 201 answer
BookLink(i) ==
    /\ At(i, "bookAppointment", "link")
    /\ UNCHANGED <<started, limit, serial, issued, faulty, doctors, appointments, nextAppt, txns, maillog>>
    /\ \E ok \in CallOutcomes :
         LET body == req[i].body
         IN  IF ok /\ IsObjectId(body.patientId)
             THEN /\ patients' = UpdatePatientAppointments(patients, body.patientId)
                  /\ outbox' = sendEmail(req[i].n, body.patientEmail, "Appointment Confirmation", body.timeSlot)
                  /\ Answer(i, Response(201, "Appointment booked successfully!", AppointmentData(req[i].loc)))
             ELSE /\ UNCHANGED <<patients, outbox>>
                  /\ Answer(i, Response(500, "Internal server error", NoData))

---------------------------------------------------------------------------
\* POST /api/cancelAppointment.  The handler's reads and writes carry the
\* session, so they belong to one transaction of the store: its writes
\* are pending until commitTransaction applies them together, and
\* abortTransaction drops them.  A write to a document that another open
\* transaction has written, or that was removed after this transaction's
\* first read, is refused (write conflict).

\* ids of the appointments ever created, a well-formed id of none, a string
\* that is no ObjectId, and no id at all
CancelApptIds == {ApptIdBase + k : k \in 1..nextAppt} \cup {StrayId, BadId, NoId}

CancelBody(appointmentId, patientId) == [appointmentId |-> appointmentId, patientId |-> patientId, patientEmail |-> "b@x.com"]

\* with the patient's id, or (for a stored appointment) with a patientId
\* that is no ObjectId
CancelBodies == {CancelBody(id, PatientIdBase + 1) : id \in CancelApptIds} \cup {CancelBody(a.id, BadId) : a \in appointments}

\* an open transaction: the request whose session runs it and the
\* appointment ids it has a pending delete on
Txn(n, deleted) == [n |-> n, deleted |-> deleted]

\* session.startTransaction() of request n
StartTransaction(ts, n) == ts \cup {Txn(n, {})}

\* session.abortTransaction() / the end of request n's transaction: its
\* pending writes are dropped
EndTransaction(ts, n) == {t \in ts : t.n # n}

\* a delete of `id` inside request n's transaction: pending until commit
PendingDelete(ts, n, id) == {IF t.n = n THEN Txn(n, t.deleted \cup {id}) ELSE t : t \in ts}

\* the appointment ids request n's transaction has a pending delete on
DeletedBy(n) == UNION {t.deleted : t \in {u \in txns : u.n = n}}

\* (mutant of WriteConflict: the store detects no conflict)
WriteConflictUndetected(n, id) == FALSE

\* whether findByIdAndDelete of `id` inside request n's transaction is
\* refused: another open transaction has written the document, or it was
\* removed after this transaction read it
WriteConflict(n, id) == (\E t \in txns : t.n # n /\ id \in t.deleted) \/ ById(appointments, id) = {}

\* authenticateToken, startSession / startTransaction, validation and
\* `await Appointment.findById(appointmentId).session(session)`.
\* startSession is awaited outside the try block: when it throws, the
\* handler ends without an answer.  Every answer given here comes after
\* abortTransaction.
CancelFind(i, token, b) ==
    /\ Free(i)
    /\ started' = started + 1
    /\ UNCHANGED <<issued, faulty, limit, serial, doctors, patients, appointments, nextAppt>> /\ MailUnchanged
    /\ LET body == [token |-> token, appointmentId |-> b.appointmentId, patientId |-> b.patientId, patientEmail |-> b.patientEmail]
           n == started + 1
       IN  IF authenticateToken(token) # 0
           THEN ArriveAnswer(i, "cancelAppointment", body, AuthFailure(authenticateToken(token))) /\ txns' = txns
           ELSE \E session \in CallOutcomes :
                  IF ~session
                  THEN Arrive(i, "cancelAppointment", body, "hung", NoData) /\ txns' = txns
                  ELSE IF b.appointmentId = NoId
                  THEN ArriveAnswer(i, "cancelAppointment", body, Response(400, "Appointment ID required.", NoData)) /\ txns' = EndTransaction(StartTransaction(txns, n), n)
                  ELSE \E ok \in CallOutcomes :
                         IF ~ok \/ ~IsObjectId(b.appointmentId)
                         THEN ArriveAnswer(i, "cancelAppointment", body, Response(500, "Internal server error.", NoData)) /\ txns' = EndTransaction(StartTransaction(txns, n), n)
                         ELSE IF ById(appointments, b.appointmentId) = {}
                         THEN ArriveAnswer(i, "cancelAppointment", body, Response(404, "Appointment not found.", NoData)) /\ txns' = EndTransaction(StartTransaction(txns, n), n)
                         ELSE Arrive(i, "cancelAppointment", body, "delete", CHOOSE a \in ById(appointments, b.appointmentId) : TRUE) /\ txns' = StartTransaction(txns, n)

\* (mutant of CancelDelete: the delete does not carry the session, so it
\* is applied at once)
CancelDeleteOutsideSession(i) ==
    /\ At(i, "cancelAppointment", "delete")
    /\ UNCHANGED <<started, limit, serial, issued, faulty, doctors, patients, nextAppt>> /\ MailUnchanged
    /\ \E ok \in CallOutcomes :
         IF ok
         THEN Continue(i, "pull", req[i].loc) /\ txns' = txns /\ appointments' = {a \in appointments : a.id # req[i].loc.id}
         ELSE Answer(i, Response(500, "Internal server error.", NoData)) /\ txns' = EndTransaction(txns, req[i].n) /\ appointments' = appointments

\* `await Appointment.findByIdAndDelete(appointmentId).session(session)`;
\* on a throw the catch block aborts the transaction and answers 500
CancelDelete(i) ==
    /\ At(i, "cancelAppointment", "delete")
    /\ UNCHANGED <<started, limit, serial, issued, faulty, doctors, patients, appointments, nextAppt>> /\ MailUnchanged
    /\ \E ok \in CallOutcomes :
         IF ok /\ ~WriteConflict(req[i].n, req[i].loc.id)
         THEN Continue(i, "pull", req[i].loc) /\ txns' = PendingDelete(txns, req[i].n, req[i].loc.id)
         ELSE Answer(i, Response(500, "Internal server error.", NoData)) /\ txns' = EndTransaction(txns, req[i].n)

\* `await Patient.findByIdAndUpdate(patientId, { $pull: ... }, { session })`
CancelPull(i) ==
    /\ At(i, "cancelAppointment", "pull")
    /\ UNCHANGED <<started, limit, serial, issued, faulty, doctors, patients, appointments, nextAppt>> /\ MailUnchanged
    /\ \E ok \in CallOutcomes :
         IF ok /\ IsObjectId(req[i].body.patientId)
         THEN Continue(i, "commit", req[i].loc) /\ txns' = txns
         ELSE Answer(i, Response(500, "Internal server error.", NoData)) /\ txns' = EndTransaction(txns, req[i].n)

\* (mutant of CommitDelete: the commit does not apply the delete)
CommitDeleteDropped(coll, n) == coll

\* what commitTransaction of request n applies to the Appointment collection
CommitDelete(coll, n) == {a \in coll : a.id \notin DeletedBy(n)}

\* (mutant of CancelCommit: the mail is sent before the commit is awaited)
CancelCommitMailFirst(i) ==
    /\ At(i, "cancelAppointment", "commit")
    /\ UNCHANGED <<started, limit, serial, issued, faulty, doctors, nextAppt, maillog>>
    /\ txns' = EndTransaction(txns, req[i].n)
    /\ outbox' = sendEmail(req[i].n, req[i].body.patientEmail, "Appointment Cancelled", req[i].loc.timeSlot)
    /\ \E ok \in CallOutcomes :
         IF ok
         THEN /\ appointments' = CommitDelete(appointments, req[i].n)
              /\ patients' = UpdatePatientAppointments(patients, req[i].body.patientId)
              /\ Answer(i, Response(200, "Appointment cancelled successfully!", NoData))
         ELSE /\ UNCHANGED <<appointments, patients>>
              /\ Hang(i)

\* `await session.commitTransaction()`, sendEmail and the 200 answer.  When
\* the commit throws, the transaction is not applied, and the catch block
\* calls abortTransaction on a session whose commit was already called:
\* that call throws inside the catch block and the handler ends without
\* an answer.
CancelCommit(i) ==
    /\ At(i, "cancelAppointment", "commit")
    /\ UNCHANGED <<started, limit, serial, issued, faulty, doctors, nextAppt, maillog>>
    /\ txns' = EndTransaction(txns, req[i].n)
    /\ \E ok \in CallOutcomes :
         IF ok
         THEN /\ appointments' = CommitDelete(appointments, req[i].n)
              /\ patients' = UpdatePatientAppointments(patients, req[i].body.patientId)
              /\ outbox' = sendEmail(req[i].n, req[i].body.patientEmail, "Appointment Cancelled", req[i].loc.timeSlot)
              /\ Answer(i, Response(200, "Appointment cancelled successfully!", NoData))
         ELSE /\ UNCHANGED <<appointments, patients, outbox>>
              /\ Hang(i)

---------------------------------------------------------------------------
\* GET /api/searchDoctors

\* (mutant of SelectNoPassword: the projection is left out)
SelectEverything(doc) == doc

\* .select("-password"): the document without its password path
SelectNoPassword(doc) == [f \in DOMAIN doc \ {"password"} |-> doc[f]]

DoctorsData(docs) == [k |-> "doctors", docs |-> docs]

SearchDoctors(i) ==
    /\ Free(i)
    /\ started' = started + 1
    /\ UNCHANGED <<issued, faulty, limit, serial>> /\ StoreUnchanged /\ MailUnchanged
    /\ \E ok \in CallOutcomes :
         IF ok
         THEN ArriveAnswer(i, "searchDoctors", NoData, Response(200, "", DoctorsData({SelectNoPassword(d) : d \in doctors})))
         ELSE ArriveAnswer(i, "searchDoctors", NoData, Response(500, "Internal server error.", NoData))

---------------------------------------------------------------------------
\* The specifications.

\* The database outlives the server (mongoose.connect attaches to the
\* doctorsDB that earlier runs filled) and tokens are checked by signature
\* alone, so a run can start from a database with registered users whose
\* tokens are still good.  The seed is what two registerDoctor, one
\* registerPatient and two login requests leave behind.
SeedDoctorA == [id |-> DoctorIdBase + 1, name |-> "Dr. A", email |-> "a@x.com", password |-> Hash("pw"), availability |-> <<>>]

SeedDoctorB == [id |-> DoctorIdBase + 2, name |-> "Dr. A", email |-> "b@x.com", password |-> Hash("other"), availability |-> CastAvailability(<<EntryTue>>)]

SeedPatient == [id |-> PatientIdBase + 1, name |-> "Bob", email |-> "b@x.com", password |-> Hash("pw")]

DoctorToken == Payload("doctorId", DoctorIdBase + 1)

PatientToken == Payload("patientId", PatientIdBase + 1)

Start(ds, ps, tokens, lim, f, one) ==
    /\ doctors = ds
    /\ patients = ps
    /\ issued = tokens
    /\ appointments = {}
    /\ nextAppt = 0
    /\ req = [i \in Slots |-> Idle]
    /\ last = NoAnswer
    /\ started = 0
    /\ limit = lim
    /\ txns = {}
    /\ outbox = {}
    /\ maillog = {}
    /\ faulty = f
    /\ serial = one

\* registration and login on a fresh database
InitAuth == Start({}, {}, {}, MaxStarted, FALSE, FALSE)

NextAuth ==
    \/ \E i \in Slots, body \in RegisterDoctorBodies : RegisterDoctorFind(i, body)
    \/ \E i \in Slots : RegisterDoctorSave(i)
    \/ \E i \in Slots, body \in RegisterPatientBodies : RegisterPatientFind(i, body)
    \/ \E i \in Slots : RegisterPatientSave(i)
    \/ \E i \in Slots, body \in LoginBodies : LoginPatient(i, body)
    \/ \E i \in Slots, body \in LoginBodies : LoginDoctor(i, body)

SpecAuth == InitAuth /\ [][NextAuth]_vars

\* availability reads and updates on a database with two doctors
InitAvail == Start({SeedDoctorA, SeedDoctorB}, {SeedPatient}, {DoctorToken, PatientToken}, MaxStarted, FALSE, FALSE)

NextAvail ==
    \/ \E i \in Slots, r \in Protected(DoctorIdInputs) : GetDoctor(i, r.token, r.body)
    \/ \E i \in Slots, r \in Protected(SetAvailabilityBodies) : SetAvailabilityFind(i, r.token, r.body)
    \/ \E i \in Slots : SetAvailabilitySave(i)

SpecAvail == InitAvail /\ [][NextAvail]_vars

\* bookings and cancellations
InitBook == Start({SeedDoctorA, SeedDoctorB}, {SeedPatient}, {PatientToken}, MaxStarted, FALSE, FALSE)

NextBook ==
    \/ \E i \in Slots, body \in BookBodies : BookFind(i, body)
    \/ \E i \in Slots : BookSave(i)
    \/ \E i \in Slots : BookLink(i)
    \/ \E i \in Slots, r \in Protected(CancelBodies) : CancelFind(i, r.token, r.body)
    \/ \E i \in Slots : CancelDelete(i)
    \/ \E i \in Slots : CancelPull(i)
    \/ \E i \in Slots : CancelCommit(i)

SpecBook == InitBook /\ [][NextBook]_vars

\* ... one request at a time: a request arrives only when none is in flight
InitSeq == Start({SeedDoctorA, SeedDoctorB}, {SeedPatient}, {PatientToken}, MaxStarted, FALSE, TRUE)

SpecSeq == InitSeq /\ [][NextBook]_vars

\* ... with the transporter's callbacks
InitMail == Start({SeedDoctorA, SeedDoctorB}, {SeedPatient}, {PatientToken}, MaxStartedMail, FALSE, FALSE)

NextMail ==
    \/ NextBook
    \/ \E m \in outbox, delivered \in BOOLEAN : MailCallback(m, delivered)

SpecMail == InitMail /\ [][NextMail]_vars

\* ... with calls to the store that can throw
InitFaulty == Start({SeedDoctorA, SeedDoctorB}, {SeedPatient}, {PatientToken}, MaxStartedFaulty, TRUE, FALSE)

SpecFaulty == InitFaulty /\ [][NextBook]_vars

\* every endpoint
Init == Start({SeedDoctorA}, {SeedPatient}, {DoctorToken}, MaxStartedAll, FALSE, FALSE)

Next ==
    \/ NextAuth
    \/ NextAvail
    \/ NextMail
    \/ \E i \in Slots : SearchDoctors(i)

Spec == Init /\ [][Next]_vars

---------------------------------------------------------------------------
\* Properties.

\* this step answers a request of the given handler
JustAnswered(kind) == last' # last /\ last'.kind = kind

\* the appointments of one doctor at one time slot
Booked(coll, doctorId, timeSlot) == {a \in coll : a.doctorId = doctorId /\ a.timeSlot = timeSlot}

\* C1: in every reachable state, whatever the interleaving of concurrent
\* bookAppointment requests, the Appointment collection holds at most one
\* record per (doctorId, timeSlot) pair.
OneAppointmentPerSlot == \A a, b \in appointments : (a.doctorId = b.doctorId /\ a.timeSlot = b.timeSlot) => a = b

\* this step inserted exactly one appointment, status "Booked", for the
\* pair the request answered by it names
InsertedOneBooked == \E doc \in appointments' : /\ doc \notin last'.pre.appointments
                                                /\ appointments' = last'.pre.appointments \cup {doc}
                                                /\ doc.status = "Booked"
                                                /\ doc.doctorId = last'.body.doctorId
                                                /\ doc.timeSlot = last'.body.timeSlot

SlotTakenAnswer == last'.resp.status = 400 /\ last'.resp.message = "Time slot already booked!" /\ appointments' = last'.pre.appointments

\* C2: with requests running one at a time, a booking with all
\* five fields present is answered 400 "Time slot already booked!" and
\* leaves the collection unchanged when its (doctorId, timeSlot) has a
\* record; otherwise exactly one Appointment with status "Booked" is
\* inserted and the answer is 201.
SequentialBooking == [][(JustAnswered("bookAppointment") /\ ~BookInvalid(last'.body)) => IF Booked(last'.pre.appointments, last'.body.doctorId, last'.body.timeSlot) # {} THEN SlotTakenAnswer ELSE (InsertedOneBooked /\ last'.resp.status = 201)]_vars

\* this step ends the cancellation suspended in slot i without success:
\* with an answer other than 200, or with no answer at all
CancelFailsHere(i) == /\ req[i].kind = "cancelAppointment" /\ req[i].pc \in {"delete", "pull", "commit"}
                      /\ \/ req'[i] = Idle /\ last'.n = req[i].n /\ last'.resp.status # 200
                         \/ req'[i].pc = "hung"

\* this step is the commit of a cancellation of appointment `a`, after its
\* delete and its patient update, and it removes `a` and nothing else
CommitsCancellationOf(a) == /\ JustAnswered("cancelAppointment") /\ last'.resp.status = 200 /\ last'.body.appointmentId = a.id
                            /\ \E i \in Slots : req[i].n = last'.n /\ req[i].pc = "commit" /\ a.id \in DeletedBy(req[i].n)
                            /\ appointments' = appointments \ {a}

\* C3: cancelAppointment is all-or-nothing: a cancellation whose delete,
\* patient update or commit fails leaves the Appointment record in the
\* store and the Patient records unchanged, and an appointment leaves the
\* store only in the step that commits a transaction holding both writes.
CancelAllOrNothing == [][/\ \A i \in Slots : CancelFailsHere(i) => (appointments' = appointments /\ patients' = patients /\ (req[i].loc \in appointments => req[i].loc \in appointments'))
                         /\ \A a \in appointments \ appointments' : CommitsCancellationOf(a)]_vars

\* a cancellation failed at its patient update (patientId is no ObjectId)
\* and its appointment is still stored
CancelAllOrNothingWitness == /\ last.kind = "cancelAppointment" /\ last.resp.status = 500 /\ last.body.patientId = BadId
                             /\ \E a \in appointments : a.id = last.body.appointmentId

\* the answered request named an appointmentId, with a good token, that
\* no stored appointment had when it arrived
CancelOfNoAppointment == /\ JustAnswered("cancelAppointment") /\ authenticateToken(last'.body.token) = 0
                         /\ last'.body.appointmentId # NoId
                         /\ \A a \in last'.pre.appointments : a.id # last'.body.appointmentId

\* the request answered by this step left no transaction open, changed no
\* record and sent no notification
NothingDone == /\ \A t \in txns' : t.n # last'.n
               /\ doctors' = doctors /\ patients' = patients /\ appointments' = appointments
               /\ outbox' = outbox /\ maillog' = maillog

\* C4: a cancelAppointment request with a valid token whose
\* appointmentId matches no Appointment record is answered 404, its
\* transaction is aborted, no record is changed and no notification sent.
CancelUnknown == [][CancelOfNoAppointment => (last'.resp.status = 404 /\ NothingDone)]_vars

\* this step answers a registerDoctor request with all required fields
\* that arrived when a Doctor with its email was stored
DoctorEmailTaken == /\ JustAnswered("registerDoctor") /\ ~RegisterDoctorInvalid(last'.body)
                    /\ \E d \in last'.pre.doctors : d.email = last'.body.email

PatientEmailTaken == /\ JustAnswered("registerPatient") /\ ~RegisterPatientInvalid(last'.body)
                     /\ \E d \in last'.pre.patients : d.email = last'.body.email

\* C5: once a registration with email e has succeeded, every later
\* registration of the same kind with email e and all required fields is
\* answered 400 "... with this email already exists." and leaves the
\* stored record, its password hash included, and the rest of the
\* collection as they were when the request arrived.
DuplicateEmailRefused == [][/\ DoctorEmailTaken => /\ last'.resp = Response(400, "Doctor with this email already exists.", NoData)
                                                   /\ doctors' = last'.pre.doctors /\ doctors' = doctors
                            /\ PatientEmailTaken => /\ last'.resp = Response(400, "Patient with this email already exists.", NoData)
                                                    /\ patients' = last'.pre.patients /\ patients' = patients]_vars

\* a second registerDoctor with a stored email and another password was
\* refused, and the stored hash is still the first password's
DuplicateEmailRefusedWitness == /\ last.kind = "registerDoctor" /\ last.resp.status = 400 /\ ~RegisterDoctorInvalid(last.body)
                                /\ \E d \in doctors : d.email = last.body.email /\ ~Compare(last.body.password, d.password)

\* this step answers a GET /api/doctor/:doctorId with a list, and the
\* answer before it was a successful setAvailability for the same doctor
ReadsBackAfterSet == /\ last.kind = "setAvailability" /\ last.resp.status = 200
                     /\ JustAnswered("getDoctor") /\ last'.resp.status = 200
                     /\ last'.body.doctorId = last.body.doctorId

SameTimes(e, f) == e.day = f.day /\ e.startTime = f.startTime /\ e.endTime = f.endTime

\* C6: after a successful setAvailability(doctorId, list) with no other
\* setAvailability for that doctor in between, GET /api/doctor/:doctorId
\* returns the same entries in the same order, each with the same day,
\* startTime, endTime and location as submitted.
AvailabilityRoundTripAsStated == [][ReadsBackAfterSet => LET sent == last.body.availability.list
                                                             got == last'.resp.data.availability
                                                         IN  /\ Len(got) = Len(sent)
                                                             /\ \A k \in DOMAIN sent : SameTimes(sent[k], got[k]) /\ got[k].location = sent[k].location]_vars

\* C6 amended: ... each with the same day, startTime and endTime as
\* submitted, and with the location submitted or, for an entry submitted
\* without a location, the location "Office".
AvailabilityRoundTrip == [][ReadsBackAfterSet => LET sent == last.body.availability.list
                                                     got == last'.resp.data.availability
                                                 IN  /\ Len(got) = Len(sent)
                                                     /\ \A k \in DOMAIN sent : SameTimes(sent[k], got[k]) /\ got[k].location = (IF sent[k].location = Undefined THEN "Office" ELSE sent[k].location)]_vars

\* doctor A's list, set to a two-entry list whose first entry had no
\* location, was read back
AvailabilityRoundTripWitness == /\ last.kind = "getDoctor" /\ last.resp.status = 200 /\ last.body.doctorId = DoctorIdBase + 1
                                /\ last.resp.data.k = "availability" /\ Len(last.resp.data.availability) = 2
                                /\ last.resp.data.availability[1].location = "Office"

\* the answer carries a token whose payload has `id` under `key`
CarriesToken(resp, key, id) == resp.status = 200 /\ resp.data.k = "login" /\ resp.data.token = Token(Payload(key, id), TRUE)

\* what the claim says of a login answered by this step: `coll` is the
\* collection of the role when the request arrived
LoginAsStated(coll, key, notFound) ==
    LET body == last'.body
        known == {d \in coll : d.email = body.email}
    IN  /\ \A d \in known : body.password # Undefined =>
              IF d.password = Hash(body.password)
              THEN CarriesToken(last'.resp, key, d.id)
              ELSE last'.resp.status = 401 /\ last'.resp.data = NoData
        /\ (known = {} /\ body.email # Undefined) => (last'.resp.message = notFound /\ last'.resp.data = NoData)

ProtectedKinds == {"getDoctor", "setAvailability", "cancelAppointment"}

\* this step answers a request to a token-protected endpoint
AnsweredProtected == last' # last /\ last'.kind \in ProtectedKinds

\* this step read nothing into its answer, wrote nothing, opened no
\* transaction and handed no mail to the transporter
HandlerDidNotRun == /\ last'.resp.data = NoData
                    /\ doctors' = doctors /\ patients' = patients /\ appointments' = appointments
                    /\ txns' = txns /\ outbox' = outbox /\ maillog' = maillog

\* C8: on GET /api/doctor/:doctorId, setAvailability and cancelAppointment
\* a request with no token is answered 401 and one whose token fails
\* verification is answered 403; in both cases the handler body never
\* runs: the request is never suspended at a store call, and no read,
\* write, transaction or notification happens.
TokenGate == [][/\ (AnsweredProtected /\ last'.body.token = NoToken) => (last'.resp.status = 401 /\ HandlerDidNotRun)
                /\ (AnsweredProtected /\ last'.body.token # NoToken /\ ~last'.body.token.good) => (last'.resp.status = 403 /\ HandlerDidNotRun)
                /\ \A i \in Slots : (req'[i] # Idle /\ req'[i].kind \in ProtectedKinds) => req'[i].body.token.good]_vars

\* a setAvailability request with a token that fails verification was
\* answered 403
TokenGateWitness == last.kind = "setAvailability" /\ last.body.token = BadToken /\ last.resp.status = 403

\* this step is a delivery outcome: a mail leaves the transporter
DeliveryStep == outbox' # outbox /\ outbox' \subseteq outbox

\* C9: booking and cancellation outcomes do not depend on notification
\* delivery: when a delivery succeeds or fails, the Appointment a booking
\* created stays in the store, the Appointment a cancellation removed
\* stays removed, and the answers already given (201 / 200) stand.
DeliveryChangesNothing == [][DeliveryStep => (appointments' = appointments /\ patients' = patients /\ doctors' = doctors /\ txns' = txns /\ req' = req /\ last' = last)]_vars

\* the confirmation of a booking answered 201 failed to deliver, and the
\* appointment is in the store
DeliveryChangesNothingWitness == /\ last.kind = "bookAppointment" /\ last.resp.status = 201
                                 /\ \E r \in maillog : r.mail.n = last.n /\ ~r.delivered
                                 /\ \E a \in appointments : a.doctorId = last.body.doctorId /\ a.timeSlot = last.body.timeSlot

\* the records an answer's data is made of
RecordsOf(data) == {data} \cup (IF data.k = "login" THEN {data.token, data.profile}
                                ELSE IF data.k = "doctors" THEN data.docs
                                ELSE IF data.k = "appointment" THEN {data.appointment}
                                ELSE {})

\* C10: no response of any endpoint, error answers included, contains a
\* stored password hash or a submitted password: no record of the answer
\* has a password path, and the message is no password.
NoPasswordInResponses == /\ \A r \in RecordsOf(last.resp.data) : "password" \notin DOMAIN r
                         /\ last.resp.message \notin Passwords

\* searchDoctors answered with the stored doctors, who have password hashes
NoPasswordInResponsesWitness == /\ last.kind = "searchDoctors" /\ last.resp.status = 200
                                /\ \E d \in doctors : "password" \in DOMAIN d /\ \E r \in last.resp.data.docs : r.id = d.id

\* C11: every request to every handler receives a response, a failing
\* store or collaborator call being answered 500, also when starting the
\* session fails in cancelAppointment and when abortTransaction fails in
\* its error path: no handler ends and leaves its request unanswered.
EveryRequestAnswered == \A i \in Slots : req[i].pc # "hung"

OnePerEmail(coll) == \A d, e \in coll : d.email = e.email => d = e

\* C12: in every reachable state, whatever the interleaving of concurrent
\* registerDoctor (resp. registerPatient) requests with the same email,
\* the Doctor (resp. Patient) collection holds at most one record per
\* email.
OneRecordPerEmail == OnePerEmail(doctors) /\ OnePerEmail(patients)

\* a registerDoctor request that found no record with its email when it
\* arrived was refused at its save, another request having stored the
\* email in between
OneRecordPerEmailWitness == /\ last.kind = "registerDoctor" /\ last.resp.status = 500
                            /\ ~RegisterDoctorInvalid(last.body) /\ ValidAvailability(last.body.availability.list)
                            /\ \A d \in last.pre.doctors : d.email # last.body.email
                            /\ \E d \in doctors : d.email = last.body.email

\* `stored` is the list `sent` as the schema stores it: the same entries
\* in the same order (an entry sent without a location has the default)
StoredListOf(stored, sent) == /\ Len(stored) = Len(sent)
                              /\ \A k \in DOMAIN sent : /\ SameTimes(sent[k], stored[k])
                                                        /\ stored[k].location = (IF sent[k].location = Undefined THEN "Office" ELSE sent[k].location)

\* this step answers a setAvailability request with success
SetSucceeds == JustAnswered("setAvailability") /\ last'.resp.status = 200

SetsForAnotherDoctor == /\ JustAnswered("setAvailability") /\ authenticateToken(last'.body.token) = 0
                        /\ last'.body.token.id # last'.body.doctorId
                        /\ \E d \in last'.pre.doctors : d.id = last'.body.doctorId
                        /\ IsArray(last'.body.availability) /\ ValidAvailability(last'.body.availability.list)

SentInOrder(m) == /\ last' # last /\ last'.n = m.n
                  /\ IF m.subject = "Appointment Cancelled"
                     THEN /\ last'.kind = "cancelAppointment" /\ last'.resp.status = 200
                          /\ \E i \in Slots : At(i, "cancelAppointment", "commit") /\ req[i].n = m.n
                          /\ \A a \in appointments' : a.id # last'.body.appointmentId
                          /\ \A t \in txns' : t.n # m.n
                     ELSE /\ last'.kind = "bookAppointment" /\ last'.resp.status = 201
                          /\ \E i \in Slots : At(i, "bookAppointment", "link") /\ req[i].n = m.n /\ req[i].loc.id <= ApptIdBase + nextAppt

\* this step ends a request without success: an answer other than 200 or
\* 201, or a handler that ends without an answer
EndsWithoutSuccess == \/ last' # last /\ last'.resp.status \notin {200, 201}
                      \/ \E i \in Slots : req'[i].pc = "hung" /\ req[i].pc # "hung"

\* C15: a cancellation notification is sent only after the cancellation
\* transaction has committed and never for a request that was aborted or
\* answered 400/404/500; a booking confirmation is sent only after the
\* Appointment insert has been persisted and never for a booking that was
\* answered 400.
NotificationOrder == [][/\ \A m \in outbox' \ outbox : SentInOrder(m)
                        /\ EndsWithoutSuccess => outbox' = outbox]_vars

\* the notification of a committed cancellation is with the transporter
NotificationOrderWitness == /\ last.kind = "cancelAppointment" /\ last.resp.status = 200
                            /\ \E m \in outbox : m.n = last.n /\ m.subject = "Appointment Cancelled"
                            /\ \A a \in appointments : a.id # last.body.appointmentId

\* this step belongs to a request of one of the handlers: it arrives, it
\* resumes or it is answered
StepOf(kinds) == \/ last' # last /\ last'.kind \in kinds
                 \/ \E i \in Slots : req'[i] # req[i] /\ req'[i].kind \in kinds

ReadOnlyKinds == {"loginDoctor", "loginPatient", "getDoctor", "searchDoctors"}

BookingErrorCreatesNothing == [][(JustAnswered("bookAppointment") /\ last'.resp.status \in {400, 500}) => appointments' = last'.pre.appointments]_vars

\* the answer before this step's was the commit of a cancellation of an
\* appointment of the pair that the booking answered by this step names,
\* the booking being complete with ids that are ObjectIds
BooksCancelledSlot == /\ last.kind = "cancelAppointment" /\ last.resp.status = 200
                      /\ JustAnswered("bookAppointment") /\ ~BookInvalid(last'.body) /\ IsObjectId(last'.body.patientId)
                      /\ \E a \in last.pre.appointments : /\ a.id = last.body.appointmentId
                                                          /\ a.doctorId = last'.body.doctorId /\ a.timeSlot = last'.body.timeSlot

\* the booking answered by this step named a pair that had an appointment
\* when it arrived
BooksTakenSlot == /\ JustAnswered("bookAppointment")
                  /\ \E a \in last'.pre.appointments : a.doctorId = last'.body.doctorId /\ a.timeSlot = last'.body.timeSlot

\* C18: a slot is freed by cancellation: with requests run one at a time,
\* the booking that follows the committed cancellation of the appointment
\* of its (doctorId, timeSlot) is answered 201, and while an appointment
\* of the pair exists (not cancelled, or its cancellation aborted) every
\* booking of the pair is answered 400.
SlotFreedByCancellation == [][/\ BooksCancelledSlot => (last'.resp.status = 201 /\ \E a \in appointments' : a.doctorId = last'.body.doctorId /\ a.timeSlot = last'.body.timeSlot)
                              /\ BooksTakenSlot => (last'.resp.status = 400 /\ appointments' = appointments)]_vars

\* after a booking and the committed cancellation of its appointment, a
\* third request booked the cancelled time slot again
SlotFreedByCancellationWitness == /\ last.kind = "bookAppointment" /\ last.resp.status = 201 /\ last.n = 3
                                  /\ last.pre.appointments = {} /\ nextAppt = 2
                                  /\ \E m \in outbox : m.subject = "Appointment Cancelled" /\ m.n = 2 /\ m.timeSlot = last.body.timeSlot
                                  /\ \E m \in outbox : m.subject = "Appointment Confirmation" /\ m.n = 1 /\ m.timeSlot = last.body.timeSlot

\* this step answers a cancellation that passed the token check and named
\* an appointmentId
CancelAnswered == JustAnswered("cancelAppointment") /\ authenticateToken(last'.body.token) = 0 /\ last'.body.appointmentId # NoId

\* the stored appointments the cancellation answered by this step names
Named == {a \in appointments : a.id = last'.body.appointmentId}

\* C19: under any interleaving of concurrent cancelAppointment requests
\* for one existing appointmentId, at most one is answered with success
\* and at most one cancellation notification is sent, the others are
\* answered 404 or 500, and the appointment is deleted exactly once: a
\* success is the step that removes the stored record and sends one
\* mail, no answer is a success once the record is gone, every other
\* answer is 404 or 500 and changes nothing, and no two open transactions
\* hold a delete of the same appointment.
CancelledOnce == [][/\ CancelAnswered => IF last'.resp.status = 200
                                         THEN /\ Named # {} /\ appointments' = appointments \ Named
                                              /\ Cardinality(outbox' \ outbox) = 1 /\ outbox \subseteq outbox'
                                         ELSE /\ last'.resp.status \in {404, 500}
                                              /\ appointments' = appointments /\ outbox' = outbox
                    /\ \A t, u \in txns' : t # u => t.deleted \cap u.deleted = {}]_vars

\* a cancellation that found its appointment when it arrived lost against
\* a concurrent cancellation of the same appointment and was answered 500
CancelledOnceWitness == /\ last.kind = "cancelAppointment" /\ last.resp.status = 500
                        /\ IsObjectId(last.body.patientId)
                        /\ \E a \in last.pre.appointments : a.id = last.body.appointmentId

====
